---- MODULE Spec2Model ----
(***************************************************************************)
(* Model of hw1-grader.  From src/grader/utils.py:                         *)
(*   - GradeResult: the per-function score accumulator,                    *)
(*   - check_no_loops / _LoopFinder: the static loop detector,             *)
(*   - df_close / series_close: the tolerant table comparator;             *)
(* from src/grader/tests.py, runner.py and config.py:                      *)
(*   - the seven test routines that run_all calls, each on its own         *)
(*     GradeResult.                                                        *)
(*                                                                         *)
(* Numbers.  Points are counted in quarter points (every amount awarded    *)
(* in src/grader/tests.py is a multiple of 0.25: the smallest is           *)
(* 1.5 * 0.5), so float addition and min are exact on them.  Table cells   *)
(* are small integers, NaN or a cell that astype(float) cannot coerce;     *)
(* rtol is a rational k / RtolDen.                                         *)
(***************************************************************************)
EXTENDS Integers, Sequences, FiniteSets, TLC

VARIABLES
    max_points,      \* GradeResult.max_points (quarter points)
    points,          \* GradeResult.points (quarter points)
    messages,        \* GradeResult.messages
    PENALIZE_LOOPS,  \* grader.config.PENALIZE_LOOPS
    fn,              \* the function object handed to check_no_loops
    last,            \* the last call made: its arguments, the result before it, its return
    student,         \* first argument of df_close / series_close
    ref,             \* second argument of df_close / series_close
    rtol,            \* relative tolerance, in units of 1 / RtolDen
    atol,            \* absolute tolerance
    cmp,             \* outcome of the last comparator call
    run              \* the test routine in progress and its position

vars == <<max_points, points, messages, PENALIZE_LOOPS, fn, last,
          student, ref, rtol, atol, cmp, run>>

grVars == <<max_points, points, messages>>
cmpVars == <<student, ref, rtol, atol, cmp>>

----------------------------------------------------------------------------
(* Bounds of the model *)

\* largest max_points of a GradeResult, in quarter points
MaxWeight == 3
\* largest amount passed to award, in quarter points
MaxAward == 2
\* awards of negative amounts stop once points would fall below -MaxDebt
MaxDebt == 1
\* messages are appended only while the list is shorter than this
MaxMsgs == 2
\* body lines of an inspected function
MaxBody == 3
\* deepest indentation level of a body line, relative to its def line
MaxIndent == 3
\* indentation levels of the def line itself (a method of a class has 1)
MaxMargin == 1
\* cells of a table or series
MaxCells == 2
\* numeric cells are 1..MaxVal
MaxVal == 2
\* rtol is counted in units of 1 / RtolDen
RtolDen == 2

----------------------------------------------------------------------------
(* Helpers *)

Abs(x) == IF x < 0 THEN -x ELSE x

Min(a, b) == IF a <= b THEN a ELSE b

SeqsUpTo(S, n) == UNION {[1..k -> S] : k \in 0..n}

----------------------------------------------------------------------------
(* GradeResult (src/grader/utils.py:21-66) *)

\* message texts: the empty string and a non-empty one, as token lists
Texts == {<<>>, <<"m">>}

\* amounts passed to award: a negative one, the smallest and the largest
AwardAmounts == {-1, 1, MaxAward}

\* f"{pts:.1f}" of a multiple of 0.25: sign, integer part, first decimal.
\* A quarter is exact in binary and rounds half to even: .25 -> .2, .75 -> .8
FormatPts(pts) ==
    <<IF pts < 0 THEN "-" ELSE "", Abs(pts) \div 4,
      CASE Abs(pts) % 4 = 0 -> 0
        [] Abs(pts) % 4 = 1 -> 2
        [] Abs(pts) % 4 = 2 -> 5
        [] Abs(pts) % 4 = 3 -> 8>>

AwardMessage(pts, msg) == [tag |-> "+", pts |-> FormatPts(pts), text |-> msg]
DeductMessage(msg) == [tag |-> " ", pts |-> <<>>, text |-> msg]
FailMessage(msg) == [tag |-> "FAIL", pts |-> <<>>, text |-> msg]

Snapshot == [points |-> points, messages |-> messages]

NoFinding == [exc |-> "none", ran |-> FALSE, loops |-> <<>>]

Call(op, pts, msg, finding, ret) ==
    [op |-> op, pre |-> Snapshot, pts |-> pts, msg |-> msg,
     finding |-> finding, ret |-> ret]

\* no call made yet
NoCall ==
    [op |-> "none", pre |-> [points |-> 0, messages |-> <<>>], pts |-> 0,
     msg |-> <<>>, finding |-> NoFinding, ret |-> "None"]

\* GradeResult.__init__
GradeResultInit(mp) ==
    /\ max_points = mp
    /\ points = 0
    /\ messages = <<>>

\* award without the clamp
AwardPoints_unclamped(pts) == points + pts

\* the new value of points in award
AwardPoints(pts) == Min(points + pts, max_points)

\* GradeResult.award
award(pts, msg) ==
    /\ points' = AwardPoints(pts)
    /\ messages' = IF msg # <<>>
                   THEN Append(messages, AwardMessage(pts, msg))
                   ELSE messages
    /\ UNCHANGED max_points

\* GradeResult.deduct
deduct(msg) ==
    /\ messages' = Append(messages, DeductMessage(msg))
    /\ UNCHANGED <<max_points, points>>

\* fail that keeps the earlier messages
FailMessages_appended(msg) == Append(messages, FailMessage(msg))

\* the new value of messages in fail
FailMessages(msg) == <<FailMessage(msg)>>

\* GradeResult.fail
fail(msg) ==
    /\ points' = 0
    /\ messages' = FailMessages(msg)
    /\ UNCHANGED max_points

\* GradeResult.status
status ==
    IF points = max_points THEN "PASS"
    ELSE IF points > 0 THEN "PARTIAL" ELSE "FAIL"

----------------------------------------------------------------------------
(* Calls on a GradeResult *)

Award ==
    \E pts \in AwardAmounts, msg \in Texts :
        /\ points + pts >= -MaxDebt
        /\ msg # <<>> => Len(messages) < MaxMsgs
        /\ award(pts, msg)
        /\ last' = Call("award", pts, msg, NoFinding, "None")
        /\ UNCHANGED <<PENALIZE_LOOPS, fn, run>>
        /\ UNCHANGED cmpVars

Deduct ==
    \E msg \in Texts \ {<<>>} :
        /\ Len(messages) < MaxMsgs
        /\ deduct(msg)
        /\ last' = Call("deduct", 0, msg, NoFinding, "None")
        /\ UNCHANGED <<PENALIZE_LOOPS, fn, run>>
        /\ UNCHANGED cmpVars

Fail ==
    \E msg \in Texts :
        /\ fail(msg)
        /\ last' = Call("fail", 0, msg, NoFinding, "None")
        /\ UNCHANGED <<PENALIZE_LOOPS, fn, run>>
        /\ UNCHANGED cmpVars

----------------------------------------------------------------------------
(* Function objects and their source text *)

\* a body line is a for header, a while header or a simple statement
Kinds == {"for", "while", "stmt"}

Compound(kind) == kind \in {"def", "for", "while"}

BodyLines == [indent : 1..MaxIndent, kind : Kinds]

\* a function read from a file (its def line indented by margin, its body
\* lines relative to the def line), a function built dynamically (no source
\* file) and a built-in (no Python source at all)
NoFunction == [source |-> "builtin", margin |-> 0, body |-> <<>>]

Functions ==
    [source : {"file"}, margin : 0..MaxMargin, body : SeqsUpTo(BodyLines, MaxBody)]
    \cup {[source |-> "dynamic", margin |-> 0, body |-> <<>>], NoFunction}

\* inspect.getsource(fn): the def line and the body as they stand in the file,
\* OSError when the source cannot be retrieved, TypeError for a built-in
getsource(f) ==
    CASE f.source = "dynamic" -> [exc |-> "OSError", text |-> <<>>]
      [] f.source = "builtin" -> [exc |-> "TypeError", text |-> <<>>]
      [] OTHER ->
            [exc |-> "none",
             text |-> <<[indent |-> f.margin, kind |-> "def"]>> \o
                      [i \in 1..Len(f.body) |->
                          [indent |-> f.margin + f.body[i].indent,
                           kind |-> f.body[i].kind]]]

RECURSIVE MinIndent(_)
MinIndent(text) ==
    IF Len(text) = 1 THEN text[1].indent
    ELSE Min(text[1].indent, MinIndent(Tail(text)))

\* textwrap.dedent(source): strip the indentation common to every line
dedent(text) ==
    IF text = <<>> THEN text
    ELSE [i \in 1..Len(text) |->
            [indent |-> text[i].indent - MinIndent(text), kind |-> text[i].kind]]

\* what the parser accepts: the first line at column 0, a block one level
\* deeper after every header, no deeper line after a simple statement
SyntaxOK(text) ==
    /\ text # <<>>
    /\ text[1].indent = 0
    /\ \A i \in 2..Len(text) :
          IF Compound(text[i-1].kind)
          THEN text[i].indent = text[i-1].indent + 1
          ELSE text[i].indent <= text[i-1].indent
    /\ ~Compound(text[Len(text)].kind)

NodeType(kind) ==
    CASE kind = "def" -> "FunctionDef"
      [] kind = "for" -> "For"
      [] kind = "while" -> "While"
      [] OTHER -> "Expr"

\* the lines of the block that line i heads, in source order
BlockOf(text, i) ==
    SelectSeq([j \in 1..Len(text) |-> j],
              LAMBDA j : /\ j > i
                         /\ text[j].indent = text[i].indent + 1
                         /\ \A k \in (i+1)..j : text[k].indent > text[i].indent)

\* ast.parse(source): node 0 is the Module, node i the statement on line i
parse(text) ==
    IF ~SyntaxOK(text) THEN [exc |-> "SyntaxError", tree |-> <<>>]
    ELSE [exc |-> "none",
          tree |-> [n \in 0..Len(text) |->
                      IF n = 0
                      THEN [type |-> "Module", lineno |-> 0,
                            body |-> SelectSeq([j \in 1..Len(text) |-> j],
                                               LAMBDA j : text[j].indent = 0)]
                      ELSE [type |-> NodeType(text[n].kind), lineno |-> n,
                            body |-> BlockOf(text, n)]]]

----------------------------------------------------------------------------
(* _LoopFinder (src/grader/utils.py:137-149) *)

RECURSIVE visit(_, _, _)
RECURSIVE visit_all(_, _, _)

\* the loop of ast.NodeVisitor.generic_visit over the child nodes
visit_all(tree, kids, loops) ==
    IF kids = <<>> THEN loops
    ELSE visit_all(tree, Tail(kids), visit(tree, Head(kids), loops))

\* ast.NodeVisitor.generic_visit
generic_visit(tree, node, loops) == visit_all(tree, tree[node].body, loops)

\* visit_For without the call of generic_visit
visit_For_shallow(tree, node, loops) ==
    Append(loops, <<"for", tree[node].lineno>>)

\* _LoopFinder.visit_For
visit_For(tree, node, loops) ==
    generic_visit(tree, node, Append(loops, <<"for", tree[node].lineno>>))

\* _LoopFinder.visit_While
visit_While(tree, node, loops) ==
    generic_visit(tree, node, Append(loops, <<"while", tree[node].lineno>>))

\* ast.NodeVisitor.visit: dispatch on the node's class
visit(tree, node, loops) ==
    CASE tree[node].type = "For" -> visit_For(tree, node, loops)
      [] tree[node].type = "While" -> visit_While(tree, node, loops)
      [] OTHER -> generic_visit(tree, node, loops)

----------------------------------------------------------------------------
(* check_no_loops (src/grader/utils.py:152-186) *)

\* an except clause that forgets SyntaxError
Handled_noSyntaxError == {"OSError", "TypeError"}

\* the exceptions the try block of check_no_loops handles
Handled == {"OSError", "TypeError", "SyntaxError"}

\* lines 165-174: read, dedent and parse the source, then run the finder
find_loops(f) ==
    LET got == getsource(f) IN
    IF got.exc # "none"
    THEN [exc |-> got.exc, ran |-> FALSE, loops |-> <<>>]
    ELSE LET parsed == parse(dedent(got.text)) IN
         IF parsed.exc # "none"
         THEN [exc |-> parsed.exc, ran |-> FALSE, loops |-> <<>>]
         ELSE [exc |-> "none", ran |-> TRUE,
               loops |-> visit(parsed.tree, 0, <<>>)]

\* every outcome find_loops has on some function
Findings == {find_loops(f) : f \in Functions}

\* a description of the first loop only
loop_desc_first(loops) == <<<<loops[1][1], "loop on line", loops[1][2]>>>>

\* ", ".join(f"{kind} loop on line {line}" ...)
loop_desc(loops) ==
    [i \in 1..Len(loops) |-> <<loops[i][1], "loop on line", loops[i][2]>>]

LoopsText(loops) ==
    <<"Explicit loops are not allowed. Found:", loop_desc(loops)>>

\* check_no_loops(gr, fn), given what lines 165-174 yield on fn
check_no_loops(found) ==
    IF ~PENALIZE_LOOPS
    THEN /\ last' = Call("check_no_loops", 0, <<>>, NoFinding, "True")
         /\ UNCHANGED grVars
    ELSE IF found.exc # "none"
    THEN /\ last' = Call("check_no_loops", 0, <<>>, found,
                         IF found.exc \in Handled THEN "True" ELSE "raised")
         /\ UNCHANGED grVars
    ELSE IF found.loops # <<>>
    THEN /\ fail(LoopsText(found.loops))
         /\ last' = Call("check_no_loops", 0, <<>>, found, "False")
    ELSE /\ last' = Call("check_no_loops", 0, <<>>, found, "True")
         /\ UNCHANGED grVars

\* check_no_loops on a GradeResult in use, with any function
CheckNoLoops ==
    \E found \in Findings :
        /\ check_no_loops(found)
        /\ UNCHANGED <<PENALIZE_LOOPS, fn, run>>
        /\ UNCHANGED cmpVars

\* check_no_loops on the function fn
CheckFn ==
    /\ last.op = "none"
    /\ check_no_loops(find_loops(fn))
    /\ UNCHANGED <<PENALIZE_LOOPS, fn, run>>
    /\ UNCHANGED cmpVars

----------------------------------------------------------------------------
(* Tables, series and other objects *)

NaN == [t |-> "nan", v |-> 0]

\* a cell astype(float) cannot convert
Uncoercible == [t |-> "obj", v |-> 0]

Cells == {NaN, Uncoercible} \cup [t : {"num"}, v : 1..MaxVal]

FrameShapes ==
    {sh \in (0..MaxCells) \X (0..MaxCells) : sh[1] * sh[2] <= MaxCells}

\* a DataFrame: its shape and its cells in row-major order
Frames ==
    UNION {[kind : {"frame"}, shape : {sh}, vals : [1..(sh[1] * sh[2]) -> Cells]] :
              sh \in FrameShapes}

\* a Series
SeriesObjs ==
    UNION {[kind : {"series"}, shape : {<<n>>}, vals : [1..n -> Cells]] :
              n \in 0..MaxCells}

\* an object that is neither (None, a number, a list)
Other == [kind |-> "other", shape |-> <<>>, vals |-> <<>>]

Objects == Frames \cup SeriesObjs \cup {Other}

Rtols == {0, 1}
Atols == {0, 1}

----------------------------------------------------------------------------
(* Fractions: a float in [0, 1] as a reduced pair <<numerator, denominator>> *)

RECURSIVE GCD(_, _)
GCD(a, b) == IF b = 0 THEN a ELSE GCD(b, a % b)

Frac(n, d) == <<n \div GCD(n, d), d \div GCD(n, d)>>

One == <<1, 1>>
Zero == <<0, 1>>

\* a blend that ignores the missing-pattern half
Blend_valueOnly(x, y) == y

\* 0.5 * x + 0.5 * y
Blend(x, y) == Frac(x[1] * y[2] + y[1] * x[2], 2 * x[2] * y[2])

\* np.mean of a boolean array with at least one element
Mean(bools) ==
    Frac(Cardinality({i \in 1..Len(bools) : bools[i]}), Len(bools))

----------------------------------------------------------------------------
(* df_close and series_close (src/grader/utils.py:73-130) *)

\* np.isclose(a, b, rtol, atol) on finite values: |a - b| <= atol + rtol * |b|
isclose(a, b, rt, at) == RtolDen * Abs(a - b) <= RtolDen * at + rt * Abs(b)

Returned(all_close, fraction_close, path) ==
    [raised |-> FALSE, all_close |-> all_close,
     fraction_close |-> fraction_close, path |-> path]

Raised == [raised |-> TRUE, all_close |-> FALSE, fraction_close |-> Zero,
           path |-> "raised"]

NotCalled == [raised |-> FALSE, all_close |-> FALSE, fraction_close |-> Zero,
              path |-> "none"]

\* a comparison of the cell counts only
ShapeDiffers_bySize(s, r) == Len(s.vals) # Len(r.vals)

\* student_df.shape != ref_df.shape
ShapeDiffers(s, r) == s.shape # r.shape

\* .values.astype(float) raises on a cell it cannot convert
Coercible(x) == \A i \in 1..Len(x.vals) : x.vals[i] # Uncoercible

\* np.isnan(vals)
isnan(x) == [i \in 1..Len(x.vals) |-> x.vals[i] = NaN]

\* all_close without the test of val_frac
AllClose_maskOnly(nan_match, val_frac) == nan_match

\* all_close = nan_match and (val_frac == 1.0)
AllClose(nan_match, val_frac) == nan_match /\ val_frac = One

\* close = np.isclose(ref_vals[mask], stu_vals[mask], rtol=rtol, atol=atol)
CloseCells(s, r, overlap, rt, at) ==
    [k \in 1..Len(overlap) |->
        isclose(r.vals[overlap[k]].v, s.vals[overlap[k]].v, rt, at)]

\* the body of the try block, on two objects that have a shape and values
Compare(s, r, rt, at) ==
    LET ref_nan == isnan(r)
        stu_nan == isnan(s)
        n == Len(r.vals)
        nan_match == ref_nan = stu_nan
        nan_frac == IF ~nan_match
                    THEN Mean([i \in 1..n |-> ref_nan[i] = stu_nan[i]])
                    ELSE One
        overlap == SelectSeq([i \in 1..n |-> i],
                             LAMBDA i : ~ref_nan[i] /\ ~stu_nan[i])
    IN  IF Len(overlap) = 0
        THEN Returned(nan_match, nan_frac, "no overlap")
        ELSE LET val_frac == Mean(CloseCells(s, r, overlap, rt, at))
             IN  Returned(AllClose(nan_match, val_frac),
                          Blend(nan_frac, val_frac), "overlap")

\* df_close(student_df, ref_df, rtol, atol)
df_close(s, r, rt, at) ==
    IF s.kind = "other" \/ r.kind = "other"
    THEN Returned(FALSE, Zero, "except")       \* AttributeError, handled
    ELSE IF ShapeDiffers(s, r)
    THEN Returned(FALSE, Zero, "shape")
    ELSE IF ~Coercible(r) \/ ~Coercible(s)
    THEN Returned(FALSE, Zero, "except")       \* ValueError, handled
    ELSE Compare(s, r, rt, at)

\* Series.to_frame(): a one-column table
to_frame(x) == [kind |-> "frame", shape |-> <<Len(x.vals), 1>>, vals |-> x.vals]

\* series_close(student_s, ref_s, rtol, atol): only a Series has to_frame, and
\* the two conversions run outside df_close's try block
series_close(s, r, rt, at) ==
    IF s.kind # "series" \/ r.kind # "series"
    THEN Raised
    ELSE df_close(to_frame(s), to_frame(r), rt, at)

DfClose ==
    /\ cmp' = [op |-> "df_close", out |-> df_close(student, ref, rtol, atol)]
    /\ UNCHANGED <<student, ref, rtol, atol>>
    /\ UNCHANGED <<grVars, PENALIZE_LOOPS, fn, last, run>>

SeriesClose ==
    /\ cmp' = [op |-> "series_close",
               out |-> series_close(student, ref, rtol, atol)]
    /\ UNCHANGED <<student, ref, rtol, atol>>
    /\ UNCHANGED <<grVars, PENALIZE_LOOPS, fn, last, run>>

----------------------------------------------------------------------------
(* The test routines (src/grader/tests.py), which run_all calls in turn *)

\* grader.config.WEIGHTS, in quarter points
WEIGHTS ==
    [read_data |-> 40, calculate_returns |-> 60, calculate_momentum |-> 80,
     generate_signals |-> 40, calculate_volatility |-> 40,
     calculate_strategy_returns |-> 100, calculate_performance |-> 40]

\* the list that run_all builds, in its order
run_all ==
    <<"read_data", "calculate_returns", "calculate_momentum",
      "generate_signals", "calculate_volatility",
      "calculate_strategy_returns", "calculate_performance">>

\* One branch of an if / elif / else chain of a routine: the call it makes on
\* the GradeResult (pts in quarter points, text the fixed part of the
\* message) and whether a return statement follows the call.
Aw(pts, text) == [act |-> "award", pts |-> pts, text |-> <<text>>, ret |-> FALSE]
De(text) == [act |-> "deduct", pts |-> 0, text |-> <<text>>, ret |-> FALSE]
DeReturn(text) == [act |-> "deduct", pts |-> 0, text |-> <<text>>, ret |-> TRUE]
Nothing == [act |-> "none", pts |-> 0, text |-> <<>>, ret |-> FALSE]

\* The steps of a routine.  Every if / elif / else chain lists its branches
\* in the order of the code, the full-credit branch first.
\*   invoke  : the import of the student function, its call and the
\*             computation of the reference value
\*   type    : the isinstance test; on failure gr.fail(...) and return gr
\*   branch  : a chain on properties of the student value
\*   compare : a chain on the pair (ok, frac) returned by df_close or
\*             series_close: ok, then frac > cuts[1], frac > cuts[2], ...,
\*             then else; when guarded, the whole step sits under an if
\*             that may be false
\* try is TRUE for the chain inside the inner try block of
\* test_calculate_momentum.
InvokeStep ==
    [kind |-> "invoke", try |-> FALSE, guarded |-> FALSE, by |-> "none",
     opts |-> <<>>, cuts |-> <<>>]
TypeStep(pts, text) ==
    [kind |-> "type", try |-> FALSE, guarded |-> FALSE, by |-> "none",
     opts |-> <<Aw(pts, text)>>, cuts |-> <<>>]
BranchStep(opts) ==
    [kind |-> "branch", try |-> FALSE, guarded |-> FALSE, by |-> "none",
     opts |-> opts, cuts |-> <<>>]
TryBranchStep(opts) ==
    [kind |-> "branch", try |-> TRUE, guarded |-> FALSE, by |-> "none",
     opts |-> opts, cuts |-> <<>>]
CompareStep(by, guarded, opts, cuts) ==
    [kind |-> "compare", try |-> FALSE, guarded |-> guarded, by |-> by,
     opts |-> opts, cuts |-> cuts]

test_read_data ==
    << InvokeStep,
       TypeStep(8, "Returns a DataFrame"),
       BranchStep(<<Aw(12, "DatetimeIndex named 'Date'"),
                    Aw(6, "DatetimeIndex present but name incorrect"),
                    De("Index is not DatetimeIndex")>>),
       BranchStep(<<Aw(8, "Correct columns"), De("Expected columns")>>),
       BranchStep(<<Aw(8, "Correct shape"), De("Expected shape")>>),
       BranchStep(<<Aw(4, "Correct dtypes (float64)"),
                    Aw(2, "Numeric dtypes (not float64)"),
                    Nothing>>) >>

test_calculate_returns ==
    << InvokeStep,
       TypeStep(8, "Returns a DataFrame"),
       BranchStep(<<Aw(12, "Correct shape"), DeReturn("Shape mismatch")>>),
       BranchStep(<<Aw(8, "First row is NaN"), De("First row should be NaN")>>),
       CompareStep("df_close", FALSE,
                   <<Aw(32, "All values correct"),
                     Aw(24, "Most values correct"),
                     Aw(16, "Some values correct"),
                     Aw(8, "Few values correct"),
                     De("Values do not match reference")>>,
                   << <<9, 10>>, <<1, 2>>, <<0, 1>> >>) >>

test_calculate_momentum ==
    << InvokeStep,
       TypeStep(8, "Returns a DataFrame"),
       BranchStep(<<Aw(12, "Correct shape"), De("Shape mismatch")>>),
       TryBranchStep(<<Aw(8, "NaN pattern correct"),
                       Aw(4, "Some NaN handling (start index differs)"),
                       De("All values are NaN")>>),
       CompareStep("df_close", FALSE,
                   <<Aw(52, "All values correct"),
                     Aw(40, "Most values correct"),
                     Aw(28, "Many values correct"),
                     Aw(16, "Some values correct"),
                     Aw(8, "Few values correct"),
                     De("Values do not match reference")>>,
                   << <<9, 10>>, <<7, 10>>, <<3, 10>>, <<0, 1>> >>) >>

test_generate_signals ==
    << InvokeStep,
       TypeStep(8, "Returns a DataFrame"),
       BranchStep(<<Aw(8, "Values are in {-1, 0, +1}"), De("Unexpected values")>>),
       CompareStep("df_close", FALSE,
                   <<Aw(24, "All signals correct"),
                     Aw(18, "Most signals correct"),
                     Aw(12, "Some signals correct"),
                     De("Signals do not match reference")>>,
                   << <<9, 10>>, <<1, 2>> >>) >>

test_calculate_volatility ==
    << InvokeStep,
       TypeStep(8, "Returns a DataFrame"),
       BranchStep(<<Aw(8, "Correct shape"), De("Shape mismatch")>>),
       CompareStep("df_close", FALSE,
                   <<Aw(24, "All values correct"),
                     Aw(18, "Most values correct"),
                     Aw(12, "Some values correct"),
                     Aw(6, "Few values correct"),
                     De("Values do not match reference")>>,
                   << <<9, 10>>, <<1, 2>>, <<0, 1>> >>) >>

test_calculate_strategy_returns ==
    << InvokeStep,
       TypeStep(8, "Returns a DataFrame"),
       BranchStep(<<Aw(12, "'TSMOM' column present"),
                    De("Missing 'TSMOM' column")>>),
       BranchStep(<<Aw(8, "Asset columns present"),
                    De("Missing asset columns")>>),
       CompareStep("df_close", TRUE,
                   <<Aw(40, "Asset strategy returns correct"),
                     Aw(30, "Asset returns mostly correct"),
                     Aw(20, "Asset returns partially correct"),
                     Aw(10, "Some asset returns correct"),
                     De("Asset strategy returns incorrect")>>,
                   << <<4, 5>>, <<1, 2>>, <<0, 1>> >>),
       CompareStep("series_close", TRUE,
                   <<Aw(32, "TSMOM portfolio returns correct"),
                     Aw(24, "TSMOM mostly correct"),
                     Aw(12, "TSMOM partially correct"),
                     De("TSMOM values incorrect")>>,
                   << <<4, 5>>, <<1, 2>> >>) >>

\* one pass of the loop over metrics: pts is 1.5 for each of the three keys,
\* pts * 0.5 the approximate credit
MetricStep(key) ==
    BranchStep(<<Aw(6, key \o " correct"),
                 Aw(3, key \o " approximately correct"),
                 De(key \o ": expected"),
                 Nothing>>)

test_calculate_performance ==
    << InvokeStep,
       TypeStep(4, "Returns a dict"),
       BranchStep(<<Aw(8, "All expected keys present"), De("Missing keys")>>),
       MetricStep("annualized_return"),
       MetricStep("annualized_volatility"),
       MetricStep("sharpe_ratio") >>

\* the body of the try block of each routine
Steps ==
    [read_data |-> test_read_data,
     calculate_returns |-> test_calculate_returns,
     calculate_momentum |-> test_calculate_momentum,
     generate_signals |-> test_generate_signals,
     calculate_volatility |-> test_calculate_volatility,
     calculate_strategy_returns |-> test_calculate_strategy_returns,
     calculate_performance |-> test_calculate_performance]

\* no exception met so far
NoException == [kind |-> "none", try |-> FALSE]

\* outside every run.  index is the position in run_all's list, total and
\* max_total the sums over the results returned so far, exit the status
\* main returns (-1 before it has).  passed records that every chain so far
\* took its first branch; exc is the last exception raised in the routine
\* and whether the inner try block caught it.
Idle ==
    [routine |-> "none", index |-> 0, state |-> "idle", pc |-> 0,
     passed |-> FALSE, exc |-> NoException,
     total |-> 0, max_total |-> 0, exit |-> -1]

\* entry i of run_all's list has built its GradeResult and enters its try
\* block
Enter(r, i) ==
    [r EXCEPT !.routine = run_all[i], !.index = i, !.state = "running",
              !.pc = 1, !.exc = NoException]

Running == run.state = "running"

\* the step the routine is about to execute
Step == Steps[run.routine][run.pc]

\* the student functions a routine grades: a vectorised one (a single
\* statement) and one whose body is a for or a while loop
StudentFunctions ==
    {[source |-> "file", margin |-> 0, body |-> b] :
        b \in {<<[indent |-> 1, kind |-> "stmt"]>>} \cup
              {<<[indent |-> 1, kind |-> k], [indent |-> 2, kind |-> "stmt"]>> :
                  k \in {"for", "while"}}}

\* the pairs (ok, frac) that df_close returns on two tables
FrameVerdicts ==
    {[ok |-> out.all_close, frac |-> out.fraction_close] :
        out \in {df_close(s, r, rt, at) :
                    s \in Frames, r \in Frames, rt \in Rtols, at \in Atols}}

\* the pairs (ok, frac) that series_close returns on two series
SeriesVerdicts ==
    {[ok |-> out.all_close, frac |-> out.fraction_close] :
        out \in {series_close(s, r, rt, at) :
                    s \in SeriesObjs, r \in SeriesObjs,
                    rt \in Rtols, at \in Atols}}

Verdicts(by) == IF by = "series_close" THEN SeriesVerdicts ELSE FrameVerdicts

\* frac > cut
Above(frac, cut) == frac[1] * cut[2] > cut[1] * frac[2]

\* the branch of a compare chain taken on (ok, frac)
Tier(st, v) ==
    IF v.ok THEN 1
    ELSE IF \E i \in 1..Len(st.cuts) : Above(v.frac, st.cuts[i])
    THEN 1 + CHOOSE i \in 1..Len(st.cuts) :
                 /\ Above(v.frac, st.cuts[i])
                 /\ \A j \in 1..(i - 1) : ~Above(v.frac, st.cuts[j])
    ELSE Len(st.opts)

\* the call a branch makes on the GradeResult
Take(opt) ==
    CASE opt.act = "award" ->
            /\ award(opt.pts, opt.text)
            /\ last' = Call("award", opt.pts, opt.text, NoFinding, "None")
      [] opt.act = "deduct" ->
            /\ deduct(opt.text)
            /\ last' = Call("deduct", 0, opt.text, NoFinding, "None")
      [] OTHER -> UNCHANGED <<grVars, last>>

\* control after a step: return gr after a return statement and at the end
\* of the try block, the next step otherwise
Continue(ret, pass, exc) ==
    run' = [run EXCEPT
              !.state = IF ret \/ run.pc = Len(Steps[run.routine])
                        THEN "returned" ELSE "running",
              !.pc = @ + 1,
              !.passed = @ /\ pass,
              !.exc = exc]

\* a handler that records the exception with deduct
except_Exception_deduct ==
    /\ deduct(<<"Exception">>)
    /\ last' = Call("deduct", 0, <<"Exception">>, NoFinding, "None")

\* except Exception as e: gr.fail(f"Exception: {e}")
except_Exception ==
    /\ fail(<<"Exception">>)
    /\ last' = Call("fail", 0, <<"Exception">>, NoFinding, "None")

\* the import, the call of the student function and the reference value
Invoke ==
    /\ Running /\ Step.kind = "invoke"
    /\ Continue(FALSE, TRUE, run.exc)
    /\ UNCHANGED <<grVars, last, PENALIZE_LOOPS, fn>>
    /\ UNCHANGED cmpVars

\* if not isinstance(student, ...): gr.fail(...); return gr
TypeCheck ==
    /\ Running /\ Step.kind = "type"
    /\ \/ /\ Take(Step.opts[1])
          /\ Continue(FALSE, TRUE, run.exc)
       \/ /\ fail(<<"Return type">>)
          /\ last' = Call("fail", 0, <<"Return type">>, NoFinding, "None")
          /\ Continue(TRUE, FALSE, run.exc)
    /\ UNCHANGED <<PENALIZE_LOOPS, fn>>
    /\ UNCHANGED cmpVars

\* an if / elif / else chain on the student value: any branch may be taken
Branch ==
    /\ Running /\ Step.kind = "branch"
    /\ \E i \in 1..Len(Step.opts) :
          /\ Take(Step.opts[i])
          /\ Continue(Step.opts[i].ret, i = 1, run.exc)
    /\ UNCHANGED <<PENALIZE_LOOPS, fn>>
    /\ UNCHANGED cmpVars

\* ok, frac = df_close(...) or series_close(...), then the chain on them;
\* a guarded comparison is skipped when its if is false
Comparison ==
    /\ Running /\ Step.kind = "compare"
    /\ \/ /\ Step.guarded
          /\ UNCHANGED <<grVars, last>>
          /\ Continue(FALSE, FALSE, run.exc)
       \/ \E v \in Verdicts(Step.by) :
             /\ Take(Step.opts[Tier(Step, v)])
             /\ Continue(Step.opts[Tier(Step, v)].ret, Tier(Step, v) = 1,
                         run.exc)
    /\ UNCHANGED <<PENALIZE_LOOPS, fn>>
    /\ UNCHANGED cmpVars

\* a step outside the inner try block raises an exception that derives from
\* Exception: the handler of the routine runs, then return gr
RaiseException ==
    /\ Running /\ ~Step.try
    /\ except_Exception
    /\ run' = [run EXCEPT !.state = "returned", !.passed = FALSE,
                          !.exc = [kind |-> "Exception", try |-> FALSE]]
    /\ UNCHANGED <<PENALIZE_LOOPS, fn>>
    /\ UNCHANGED cmpVars

\* the NaN pattern check of test_calculate_momentum raises inside its own
\* try block: except Exception: gr.deduct(...), and the routine goes on
RaiseInTry ==
    /\ Running /\ Step.try
    /\ deduct(<<"Could not check NaN pattern">>)
    /\ last' = Call("deduct", 0, <<"Could not check NaN pattern">>,
                    NoFinding, "None")
    /\ Continue(FALSE, FALSE, [kind |-> "Exception", try |-> TRUE])
    /\ UNCHANGED <<PENALIZE_LOOPS, fn>>
    /\ UNCHANGED cmpVars

\* a step raises an exception that does not derive from Exception
\* (SystemExit, KeyboardInterrupt): no handler of the routine matches, the
\* exception leaves the routine and no GradeResult is returned
RaiseBaseException ==
    /\ Running
    /\ run' = [run EXCEPT !.state = "propagated", !.passed = FALSE,
                          !.exc = [kind |-> "BaseException", try |-> Step.try]]
    /\ UNCHANGED <<grVars, last, PENALIZE_LOOPS, fn>>
    /\ UNCHANGED cmpVars

\* run_all goes on to the next entry of its list: a new GradeResult for
\* the next student function
NextRoutine ==
    /\ run.state = "returned" /\ run.index < Len(run_all)
    /\ max_points' = WEIGHTS[run_all[run.index + 1]]
    /\ points' = 0
    /\ messages' = <<>>
    /\ fn' \in StudentFunctions
    /\ last' = NoCall
    /\ run' = Enter([run EXCEPT !.total = @ + points,
                                !.max_total = @ + max_points],
                    run.index + 1)
    /\ UNCHANGED PENALIZE_LOOPS
    /\ UNCHANGED cmpVars

\* main, once run_all has returned: total, max_total and the exit status
Exit ==
    /\ run.state = "returned" /\ run.index = Len(run_all)
    /\ run' = [run EXCEPT
                 !.state = "exited",
                 !.total = @ + points,
                 !.max_total = @ + max_points,
                 !.exit = IF run.total + points = run.max_total + max_points
                          THEN 0 ELSE 1]
    /\ UNCHANGED <<grVars, last, PENALIZE_LOOPS, fn>>
    /\ UNCHANGED cmpVars

----------------------------------------------------------------------------
(* Specifications *)

\* no comparison in progress
CmpIdle ==
    /\ student = Other
    /\ ref = Other
    /\ rtol = 0
    /\ atol = 0
    /\ cmp = [op |-> "none", out |-> NotCalled]

\* one GradeResult and the calls made on it, the loop check among them
Init ==
    /\ \E mp \in (MaxWeight - 1)..MaxWeight : GradeResultInit(mp)
    /\ PENALIZE_LOOPS \in BOOLEAN
    /\ fn = NoFunction
    /\ last = NoCall
    /\ CmpIdle
    /\ run = Idle

Next == Award \/ Deduct \/ Fail \/ CheckNoLoops

Spec == Init /\ [][Next]_vars

\* the loop check of one function on a fresh GradeResult
InitLoops ==
    /\ GradeResultInit(MaxWeight)
    /\ PENALIZE_LOOPS \in BOOLEAN
    /\ fn \in Functions
    /\ last = NoCall
    /\ CmpIdle
    /\ run = Idle

NextLoops == CheckFn

SpecLoops == InitLoops /\ [][NextLoops]_vars

\* one comparison of two objects
InitCmp ==
    /\ GradeResultInit(MaxWeight)
    /\ PENALIZE_LOOPS = TRUE
    /\ fn = NoFunction
    /\ last = NoCall
    /\ student \in Objects
    /\ ref \in Objects
    /\ rtol \in Rtols
    /\ atol \in Atols
    /\ cmp = [op |-> "none", out |-> NotCalled]
    /\ run = Idle

NextCmp == DfClose \/ SeriesClose

SpecCmp == InitCmp /\ [][NextCmp]_vars

\* a grading run: main calls run_all, which calls the routines of its list
\* in turn, each on a GradeResult of its own and a student function
InitRun ==
    /\ GradeResultInit(WEIGHTS[run_all[1]])
    /\ run = Enter([Idle EXCEPT !.passed = TRUE], 1)
    /\ PENALIZE_LOOPS = TRUE
    /\ fn \in StudentFunctions
    /\ last = NoCall
    /\ CmpIdle

NextRun ==
    \/ Invoke
    \/ TypeCheck
    \/ Branch
    \/ Comparison
    \/ RaiseException
    \/ RaiseInTry
    \/ RaiseBaseException
    \/ NextRoutine
    \/ Exit

SpecRun == InitRun /\ [][NextRun]_vars

----------------------------------------------------------------------------
(* Properties of GradeResult, checked under Spec *)

\* C1: after every award call, whatever calls came before, points is at
\* most max_points.
C1_AwardNeverExceedsMax ==
    last.op = "award" => points <= max_points

\* an award whose amount would have overshot max_points, and was clamped
C1_Witness ==
    /\ last.op = "award"
    /\ last.pre.points + last.pts > max_points
    /\ points = max_points

\* C2: right after fail(msg), points is 0 and the message list holds one
\* entry, the failure message: nothing of an earlier award or deduct remains.
C2_FailAbsorbing ==
    last.op = "fail" =>
        /\ points = 0
        /\ Len(messages) = 1
        /\ messages[1].tag = "FAIL"
        /\ messages[1].text = last.msg

\* a fail on a result that held points and messages
C2_Witness ==
    /\ last.op = "fail"
    /\ last.pre.points > 0
    /\ Len(last.pre.messages) >= 2
    /\ \E i \in 1..Len(last.pre.messages) : last.pre.messages[i].tag = "+"

----------------------------------------------------------------------------
(* Properties of the loop detector *)

\* the source text the parser is given for function f
ParsedText(f) == dedent(getsource(f).text)

\* line b lies in the block headed by line a
NestedIn(text, a, b) ==
    /\ a < b
    /\ \A k \in (a+1)..b : text[k].indent > text[a].indent

PositionOf(loops, line) == CHOOSE i \in 1..Len(loops) : loops[i][2] = line

\* C8 (under SpecLoops): when the finder has run on a function whose tree
\* holds k For/While nodes, it has recorded exactly k occurrences, one per
\* node with that node's kind and line, an enclosing loop before the loops
\* nested in it and an earlier line before a later one.
C8_FinderRecordsEveryLoop ==
    (last.op = "check_no_loops" /\ last.finding.ran) =>
        LET text == ParsedText(fn)
            tree == parse(text).tree
            nodes == {n \in DOMAIN tree : tree[n].type \in {"For", "While"}}
            loops == last.finding.loops
        IN  /\ Len(loops) = Cardinality(nodes)
            /\ \A n \in nodes :
                  \E i \in 1..Len(loops) :
                      /\ loops[i][2] = tree[n].lineno
                      /\ loops[i][1] = (IF tree[n].type = "For" THEN "for" ELSE "while")
            /\ \A i, j \in 1..Len(loops) : i < j => loops[i][2] < loops[j][2]
            /\ \A a, b \in nodes :
                  NestedIn(text, a, b) =>
                      PositionOf(loops, a) < PositionOf(loops, b)

\* a method (indented def) with a while nested in a for and a loop after them
C8_Witness ==
    /\ last.op = "check_no_loops"
    /\ last.finding.ran
    /\ fn.margin > 0
    /\ Len(last.finding.loops) = 2
    /\ last.finding.loops[1][1] = "for"
    /\ last.finding.loops[2][1] = "while"
    /\ NestedIn(ParsedText(fn), last.finding.loops[1][2], last.finding.loops[2][2])

\* C9 (under Spec): when the source cannot be retrieved or cannot be parsed,
\* check_no_loops returns True, raises nothing, and leaves points and
\* messages as they were.
C9_FailOpen ==
    (last.op = "check_no_loops" /\ last.finding.exc # "none") =>
        /\ last.ret = "True"
        /\ points = last.pre.points
        /\ messages = last.pre.messages

\* an unparsable source, checked on a result that holds points and messages
C9_Witness ==
    /\ last.op = "check_no_loops"
    /\ last.finding.exc = "SyntaxError"
    /\ points > 0
    /\ messages # <<>>

\* C10 (under Spec): with the switch on, once the finder has run: if it found
\* loops, check_no_loops returns False and the result has 0 points and one
\* message that names every (kind, line) found, whatever it held before; if
\* it found none, it returns True and the result is unchanged.
C10_LoopsZeroTheResult ==
    (last.op = "check_no_loops" /\ PENALIZE_LOOPS /\ last.finding.ran) =>
        LET loops == last.finding.loops IN
        IF loops # <<>>
        THEN /\ last.ret = "False"
             /\ points = 0
             /\ Len(messages) = 1
             /\ messages[1].tag = "FAIL"
             /\ Len(messages[1].text[2]) = Len(loops)
             /\ \A i \in 1..Len(loops) :
                   /\ messages[1].text[2][i][1] = loops[i][1]
                   /\ messages[1].text[2][i][3] = loops[i][2]
        ELSE /\ last.ret = "True"
             /\ points = last.pre.points
             /\ messages = last.pre.messages

\* two loops found on a result that held points and two messages
C10_Witness ==
    /\ last.op = "check_no_loops"
    /\ PENALIZE_LOOPS
    /\ Len(last.finding.loops) >= 2
    /\ last.ret = "False"
    /\ last.pre.points > 0
    /\ Len(last.pre.messages) >= 2
    /\ points = 0

----------------------------------------------------------------------------
(* Properties of the comparator, checked under SpecCmp *)

HasShape(x) == x.kind # "other"

Numeric(x) == HasShape(x) /\ Coercible(x)

\* the cells that are missing in neither table
Overlap(s, r) ==
    {i \in 1..Len(r.vals) : s.vals[i] # NaN /\ r.vals[i] # NaN}

\* the closeness rule as the specification states it: student value a and
\* reference value b are close iff |a - b| <= atol + rtol * |b|
SpecClose(a, b, rt, at) == RtolDen * Abs(a - b) <= RtolDen * at + rt * Abs(b)

\* C3: for two tables of different shapes df_close returns (False, 0.0),
\* whatever the tolerances, the cells and the missing patterns.
C3_ShapeMismatch ==
    (/\ cmp.op = "df_close"
     /\ HasShape(student) /\ HasShape(ref)
     /\ student.shape # ref.shape) =>
        /\ ~cmp.out.raised
        /\ cmp.out.all_close = FALSE
        /\ cmp.out.fraction_close = Zero

\* a row and a column that hold the same two numbers
C3_Witness ==
    /\ cmp.op = "df_close"
    /\ student.kind = "frame" /\ ref.kind = "frame"
    /\ student.shape = <<1, 2>> /\ ref.shape = <<2, 1>>
    /\ student.vals = ref.vals
    /\ Numeric(student)
    /\ Overlap(student, ref) = {1, 2}
    /\ cmp.out.path = "shape"

\* C4: for two same-shape tables with identical missing masks whose cells
\* present in both are all within tolerance, df_close returns (True, 1.0).
C4_WithinToleranceIsAllClose ==
    (/\ cmp.op = "df_close"
     /\ Numeric(student) /\ Numeric(ref)
     /\ student.shape = ref.shape
     /\ isnan(student) = isnan(ref)
     /\ \A i \in Overlap(student, ref) :
           SpecClose(student.vals[i].v, ref.vals[i].v, rtol, atol)) =>
        /\ cmp.out.all_close
        /\ cmp.out.fraction_close = One

\* what does hold of the code: the same with each cell pair judged by
\* np.isclose(reference, student), which scales rtol by the student value
C4_WithIscloseAsCalled ==
    (/\ cmp.op = "df_close"
     /\ Numeric(student) /\ Numeric(ref)
     /\ student.shape = ref.shape
     /\ isnan(student) = isnan(ref)
     /\ \A i \in Overlap(student, ref) :
           SpecClose(ref.vals[i].v, student.vals[i].v, rtol, atol)) =>
        /\ cmp.out.all_close
        /\ cmp.out.fraction_close = One

\* C5: on every return path of df_close, all_close implies
\* fraction_close = 1.0.
C5_AllCloseImpliesFullFraction ==
    (cmp.op = "df_close" /\ ~cmp.out.raised /\ cmp.out.all_close) =>
        cmp.out.fraction_close = One

\* all_close on the path that compares values, with cells that differ
C5_Witness ==
    /\ cmp.op = "df_close"
    /\ cmp.out.path = "overlap"
    /\ cmp.out.all_close
    /\ student.vals # ref.vals
    /\ \E i \in 1..Len(ref.vals) : ref.vals[i] = NaN

\* C6: on tables of one shape and one missing mask, df_close finds all cells
\* close exactly when every student value a and reference value b satisfy
\* |a - b| <= atol + rtol * |b|: rtol is scaled by the reference value.
C6_RtolScaledByReference ==
    (/\ cmp.op = "df_close"
     /\ cmp.out.path = "overlap"
     /\ isnan(student) = isnan(ref)) =>
        (cmp.out.all_close <=>
            \A i \in Overlap(student, ref) :
                SpecClose(student.vals[i].v, ref.vals[i].v, rtol, atol))

\* C7: df_close and series_close never raise: for any two arguments each
\* returns a pair, and the pair is (False, 0.0) when an exception occurred
\* inside.
C7_ComparatorNeverRaises ==
    cmp.op # "none" =>
        /\ ~cmp.out.raised
        /\ cmp.out.path = "except" =>
              (cmp.out.all_close = FALSE /\ cmp.out.fraction_close = Zero)

\* the inputs C13 speaks of: two numeric tables of one shape whose missing
\* patterns differ while every cell present in both passes np.isclose
MasksDifferValuesMatch(s, r, rt, at) ==
    /\ s.kind = "frame" /\ r.kind = "frame"
    /\ Numeric(s) /\ Numeric(r)
    /\ s.shape = r.shape
    /\ isnan(s) # isnan(r)
    /\ \A i \in Overlap(s, r) : isclose(r.vals[i].v, s.vals[i].v, rt, at)

\* C13 as stated: there are same-shape inputs with differing missing
\* patterns and matching overlap values for which df_close returns
\* fraction_close = 1.0 together with all_close = False (under the
\* tolerances of the comparison at hand).
C13_FullFractionWithoutAllClose ==
    \E s \in Frames, r \in Frames :
        /\ MasksDifferValuesMatch(s, r, rtol, atol)
        /\ df_close(s, r, rtol, atol).fraction_close = One
        /\ ~df_close(s, r, rtol, atol).all_close

\* C13, amended: the converse of C5 holds as well.  Whenever df_close
\* returns fraction_close = 1.0 it returns all_close = True, and on
\* same-shape inputs whose missing patterns differ fraction_close is below
\* 1.0 even when every overlapping value matches.
C13_FullFractionImpliesAllClose ==
    /\ (cmp.op = "df_close" /\ ~cmp.out.raised
            /\ cmp.out.fraction_close = One) => cmp.out.all_close
    /\ (cmp.op = "df_close"
            /\ MasksDifferValuesMatch(student, ref, rtol, atol)) =>
          (cmp.out.fraction_close # One /\ ~cmp.out.all_close)

\* one cell missing in the student table only, the other cell equal: the
\* value half is full, the pattern half is not
C13_Witness ==
    /\ cmp.op = "df_close"
    /\ MasksDifferValuesMatch(student, ref, rtol, atol)
    /\ Overlap(student, ref) # {}
    /\ cmp.out.path = "overlap"
    /\ cmp.out.fraction_close = <<3, 4>>
    /\ ~cmp.out.all_close

----------------------------------------------------------------------------
(* The range of points, checked under Spec *)

\* C14: in every state reachable by award, deduct and fail calls, with
\* award amounts of any sign, 0 <= points <= max_points; a deduct call
\* never changes points.
C14_PointsWithinRange ==
    /\ 0 <= points
    /\ points <= max_points
    /\ last.op = "deduct" => points = last.pre.points

----------------------------------------------------------------------------
(* Properties of a grading run, checked under SpecRun *)

\* the routine has executed return gr
Returned_gr == run.state = "returned"

\* C11: during a grading run with the switch on, the loop detector is
\* invoked on every graded student function before the GradeResult of that
\* function is returned, so a student function that contains a for or a
\* while loop ends with zero points.
C11_LoopsEndWithZeroPoints ==
    (/\ Returned_gr
     /\ PENALIZE_LOOPS
     /\ find_loops(fn).loops # <<>>) =>
        points = 0

\* a message written by fail is in the list
HasFailed == \E i \in 1..Len(messages) : messages[i].tag = "FAIL"

\* points is 0.0 and the FAIL message is the only one
ZeroWithOneMessage ==
    /\ points = 0
    /\ Len(messages) = 1
    /\ messages[1].tag = "FAIL"

\* C12 as stated: in each of the seven routines, when the import or the
\* call of the student function or any later step raises an exception, the
\* routine still returns a GradeResult, with points = 0.0 and exactly one
\* message, whatever was awarded before; no award or deduct follows a fail
\* within a routine.
C12_AnyExceptionZeroesTheResult ==
    /\ (run.state \in {"returned", "propagated"} /\ run.exc.kind # "none") =>
          (Returned_gr /\ ZeroWithOneMessage)
    /\ HasFailed => (~Running /\ ZeroWithOneMessage)

\* C12, amended: an exception that derives from Exception and is raised
\* outside the inner try block of test_calculate_momentum makes the routine
\* return a GradeResult with points = 0.0 and the FAIL message alone.  An
\* exception raised by the NaN pattern check inside that inner try block is
\* recorded with deduct, earlier awards stay and the routine goes on.  An
\* exception that does not derive from Exception leaves the routine, which
\* returns nothing.  No award or deduct follows a fail within a routine.
C12_HandledExceptionZeroesTheResult ==
    /\ (run.exc.kind = "Exception" /\ ~run.exc.try) =>
          (~Running /\ run.state # "propagated" /\ ZeroWithOneMessage)
    /\ (run.exc.kind = "Exception" /\ run.exc.try) =>
          /\ run.routine = "calculate_momentum"
          /\ run.state \in {"running", "returned"}
          /\ \E i \in 1..Len(messages) :
                messages[i] = DeductMessage(<<"Could not check NaN pattern">>)
    /\ run.exc.kind = "BaseException" <=> run.state = "propagated"
    /\ HasFailed => (~Running /\ ZeroWithOneMessage)

\* an exception raised once three messages and some points were recorded
C12_Witness ==
    /\ Returned_gr
    /\ run.exc = [kind |-> "Exception", try |-> FALSE]
    /\ last.op = "fail"
    /\ last.pre.points > 0
    /\ Len(last.pre.messages) = 3
    /\ ZeroWithOneMessage

\* C15: in each of the seven routines the awards on the path where every
\* check passes sum to max_points exactly, so a fully correct submission
\* gets status PASS for every function, total = max_total and exit status 0.
C15_AllPassIsFullMarks ==
    /\ (Returned_gr /\ run.passed) => (points = max_points /\ status = "PASS")
    /\ (run.state = "exited" /\ run.passed) =>
          (run.total = run.max_total /\ run.exit = 0)

\* what does hold of the code: the same for the six routines before
\* test_calculate_performance
C15_AllButPerformance ==
    (Returned_gr /\ run.passed /\ run.routine # "calculate_performance") =>
        (points = max_points /\ status = "PASS")

====
